---- MODULE Spec2Model ----
(***************************************************************************)
(* Model of the database-polling helper bot (src/unnamed/part_005, the     *)
(* latest of the polling variants; part_001 and part_002 are earlier       *)
(* versions of the same file).                                             *)
(*                                                                         *)
(* Worker processes run checkAndProcessRollRequests from setInterval.      *)
(* Each run borrows a pooled connection, opens a transaction, claims       *)
(* pending rows of dice_roll_requests with FOR UPDATE SKIP LOCKED, calls   *)
(* bot.sendDice for every claimed row, records the outcome, and commits.   *)
(*                                                                         *)
(* The store is modelled with PostgreSQL READ COMMITTED semantics: the     *)
(* committed table and, per run, the row locks and the uncommitted writes  *)
(* of the transaction on the run's connection.  A statement that rejects   *)
(* has no effect on the store; the transaction stays open until COMMIT,    *)
(* ROLLBACK or the end of the session.  A ROLLBACK rejects only when the   *)
(* session is lost, and the store aborts the transaction of a lost         *)
(* session without committing anything.                                    *)
(***************************************************************************)
EXTENDS Integers, Sequences, FiniteSets, TLC

\* ---------------------------------------------------------------- bounds
\* rows the producer has inserted
NumRows == 2
\* transactions begun over a behaviour
MaxClock == 2

\* signals delivered to one process
MaxSignals == 2
\* Messages delivered to the direct-reply bot.
MaxMessages == 2

\* ------------------------------------------------------ configuration
\* Values of the environment option HELPER_MAX_REQUESTS_PER_CYCLE.
MaxRequestsOptions == {1, 2}

\* SQL NULL / JavaScript null in the integer columns and locals, outside
\* every value they can hold.
NULL == -1

\* An absent emoji_type, and the process of a run that is not in flight.
NoEmoji == "none"
NoProc == "none"

Rows == 1..NumRows

\* Worker processes, and the runs of checkAndProcessRollRequests that can be
\* in flight at a time (each started by the timer of either process).
Procs == {"w1", "w2"}
Cycles == {1, 2}

\* emoji_type column: absent, the slot machine, or the standard die.
EmojiOf(r) == IF r = 1 THEN NoEmoji ELSE IF r = 2 THEN "slot" ELSE "dice"

\* chat_id column (opaque, supplied by the producer).
chat_id(r) == 100 + (r % 2)

\* requested_at column: newest row first, or rows of equal age.
RequestedAtTables ==
    {[r \in Rows |-> NumRows + 1 - r], [r \in Rows |-> 1 + (r % 2)]}

\* What bot.sendDice settles with: a message whose dice.value depends on
\* the emoji (Telegram: 1..6 for the die, 1..64 for the slot machine), a
\* message without a dice object, or a rejection.
DiceValues(emoji) == IF emoji = "slot" THEN {6, 64} ELSE {6}
Responses(emoji) ==
    {[kind |-> "dice", value |-> v] : v \in DiceValues(emoji)}
        \cup {[kind |-> "nodice", value |-> 0], [kind |-> "throw", value |-> 0]}

NoWrite == [status |-> "none", roll_value |-> NULL, processed_at |-> NULL]
NoExit == [borrowed |-> FALSE, releases |-> 0, txEnded |-> TRUE, rejected |-> FALSE]
NoReason == "none"
NoCalls == [clearInterval |-> 0, stopPolling |-> 0, poolEnd |-> 0]

VARIABLES
    MAX_REQUESTS_PER_CYCLE,  \* the configured LIMIT of the claim query
    status,        \* committed table: status column
    roll_value,    \* committed table: roll_value column
    processed_at,  \* committed table: processed_at column
    requested_at,  \* committed table: requested_at column
    emoji_type,    \* committed table: emoji_type column
    txOpen,        \* run -> a transaction is open on its connection
    txStart,       \* run -> start time of that transaction (NOW())
    locks,         \* run -> rows its transaction holds FOR UPDATE
    writes,        \* run -> row -> uncommitted update of its transaction
    checkedOut,    \* process -> clients checked out of its pool
    procOf,        \* run -> the process whose timer started it
    pc,            \* run -> position in checkAndProcessRollRequests
    batch,         \* run -> result.rows (sequence of rows)
    idx,           \* run -> index of the row being processed
    rollValue,     \* run -> local rollValue
    updateStatus,  \* run -> local updateStatus
    calls,         \* run -> bot.sendDice calls made so far in this run
    lastExit,      \* how the run that ended last left: with a client or
                   \* not, its client.release() calls, whether its
                   \* transaction had ended by then, and whether its
                   \* promise rejected
    sendCount,     \* row -> bot.sendDice calls made for it so far
    clock,         \* store clock, advanced by every BEGIN
    startup,       \* process -> position in startHelperBot
    shutdown,      \* process -> position in shutdownHelper
    isShuttingDownHelper,  \* process -> the flag of shutdownHelper
    dbPollingIntervalId,   \* process -> null, an active timer, a cleared one
    botPolling,    \* process -> bot.isPolling()
    poolEnding,    \* process -> pool.end() has been called
    exitCode,      \* process -> code of process.exit, NULL while running
    signals,       \* process -> signals delivered to its handlers
    shutdownCalls, \* process -> calls made by shutdownHelper so far
    shutdownReason,\* process -> the argument of the shutdownHelper call
                   \* that set the flag
    MAIN_CASINO_BOT_ID_TO_LISTEN_TO,  \* direct-reply bot: the configured id
    replyUp,       \* direct-reply bot: the process is running
    msgCount,      \* direct-reply bot: messages delivered so far
    lastMsg,       \* direct-reply bot: the message delivered last
    pending,       \* direct-reply bot: bot.sendMessage calls not yet settled
    lastSettled    \* direct-reply bot: the call settled last and its outcome

tableVars == <<status, roll_value, processed_at, requested_at, emoji_type>>
sessVars == <<txOpen, txStart, locks, writes, checkedOut>>
configVars == <<MAX_REQUESTS_PER_CYCLE>>
replyVars == <<MAIN_CASINO_BOT_ID_TO_LISTEN_TO, replyUp, msgCount, lastMsg,
               pending, lastSettled>>
cycleVars == <<procOf, pc, batch, idx, rollValue, updateStatus, calls, lastExit>>
lifeVars == <<startup, shutdown, isShuttingDownHelper, dbPollingIntervalId,
              botPolling, poolEnding, exitCode, signals, shutdownCalls, shutdownReason>>
vars == <<configVars, replyVars, tableVars, sessVars, cycleVars, sendCount, clock, lifeVars>>

\* ------------------------------------------------------------ helpers
Range(s) == {s[i] : i \in 1..Len(s)}
Min(a, b) == IF a < b THEN a ELSE b

\* Mutant: the status filter left out of the queries.
AnyStatus(s) == TRUE

\* The predicate status = 'pending' of the claim query and of the update.
IsPending(s) == s = "pending"

\* Mutant: a read that sees the uncommitted updates of every transaction.
DirtyStatus(c, r) ==
    IF \E d \in Cycles : writes[d][r] # NoWrite
    THEN (CHOOSE w \in {writes[d][r] : d \in Cycles} : w # NoWrite).status
    ELSE status[r]

\* The row's status as the transaction of run c sees it (its own
\* uncommitted update, else the committed row).
VisibleStatus(c, r) ==
    IF writes[c][r] # NoWrite THEN writes[c][r].status ELSE status[r]

\* Mutant: a claim query that does not look at row locks.
NeverLocked(c, r) == FALSE

\* FOR UPDATE: r is locked by a transaction other than that of run c.
LockedByOther(c, r) == \E d \in Cycles \ {c} : r \in locks[d]

\* Mutant: a claim query without the status filter.
AllUnlocked(c) == {r \in Rows : ~LockedByOther(c, r)}

\* WHERE status = 'pending' ... FOR UPDATE SKIP LOCKED
Candidates(c) ==
    {r \in Rows : IsPending(VisibleStatus(c, r)) /\ ~LockedByOther(c, r)}

\* Mutant: LIMIT without ORDER BY requested_at.
UnorderedLimit(cands, limit) ==
    LET n == Min(limit, Cardinality(cands)) IN
    {s \in [1..n -> cands] : \A i, j \in 1..n : i < j => s[i] # s[j]}

\* ORDER BY requested_at ASC LIMIT limit over a candidate set: every
\* sequence the store may return (rows of equal requested_at in any order).
OrderedLimit(cands, limit) ==
    LET n == Min(limit, Cardinality(cands)) IN
    {s \in [1..n -> cands] :
        /\ \A i, j \in 1..n : i < j =>
              /\ s[i] # s[j]
              /\ requested_at[s[i]] <= requested_at[s[j]]
        /\ \A r \in cands \ {s[i] : i \in 1..n} :
              \A i \in 1..n : requested_at[s[i]] <= requested_at[r]}

SelectForUpdateSkipLocked(c, limit) == OrderedLimit(Candidates(c), limit)

\* Mutant: every call made with the default emoji.
AlwaysDie(r) == "dice"

\* const emojiToSend = request.emoji_type || the standard die
emojiToSend(r) == IF emoji_type[r] = NoEmoji THEN "dice" ELSE emoji_type[r]

\* Mutant: no try/catch around bot.sendDice, so that a rejection reaches
\* the outer catch block.
AfterSendNoCatch(resp) ==
    IF resp.kind = "dice"
    THEN [pc |-> "update", rollValue |-> resp.value, updateStatus |-> "completed"]
    ELSE IF resp.kind = "nodice"
    THEN [pc |-> "update", rollValue |-> NULL, updateStatus |-> "error"]
    ELSE [pc |-> "rollback", rollValue |-> NULL, updateStatus |-> "error"]

\* Mutant: a failed call is made again.
AfterSendRetry(resp) ==
    IF resp.kind = "dice"
    THEN [pc |-> "update", rollValue |-> resp.value, updateStatus |-> "completed"]
    ELSE [pc |-> "send", rollValue |-> NULL, updateStatus |-> "error"]

\* Mutant: the next row's call issued without awaiting the update.
AfterSendNoRecord(resp) ==
    IF resp.kind = "dice"
    THEN [pc |-> "send", rollValue |-> resp.value, updateStatus |-> "completed"]
    ELSE [pc |-> "send", rollValue |-> NULL, updateStatus |-> "error"]

\* The per-row try/catch around bot.sendDice: the locals and the next
\* position once the call settled with resp.
AfterSend(resp) ==
    IF resp.kind = "dice"
    THEN [pc |-> "update", rollValue |-> resp.value, updateStatus |-> "completed"]
    ELSE [pc |-> "update", rollValue |-> NULL, updateStatus |-> "error"]

\* Mutant: rollValue declared outside the loop and assigned once, so that
\* every update of a run carries the value of its first call.
UpdateSetFirstValue(c, st, rv) ==
    [status |-> st,
     roll_value |-> IF st = "completed" THEN calls[c][1].value ELSE rv,
     processed_at |-> txStart[c]]

\* Mutant: an update that does not set processed_at.
UpdateSetNoStamp(c, st, rv) ==
    [status |-> st, roll_value |-> rv, processed_at |-> NULL]

\* UPDATE ... SET status = $1, roll_value = $2, processed_at = NOW()
UpdateSet(c, st, rv) ==
    [status |-> st, roll_value |-> rv, processed_at |-> txStart[c]]

\* Mutant: an update keyed on request_id alone.
UpdateAnyStatus(c, r) == 1

\* ... WHERE request_id = $3 AND status = 'pending': rowCount
UpdateRowCount(c, r) == IF IsPending(VisibleStatus(c, r)) THEN 1 ELSE 0

\* Mutant: a COMMIT that persists nothing.
DiscardWrites(col, c, field) == col

\* Mutant: an update without its WHERE request_id = $3, committed on every
\* row of the table.
CommitEveryRow(col, c, field) ==
    [r \in Rows |-> IF writes[c][r] # NoWrite THEN writes[c][r][field]
                    ELSE IF status[r] = "pending" /\ field = "status" THEN "error"
                    ELSE col[r]]

\* A column of the committed table after COMMIT of the transaction of c.
CommitColumn(col, c, field) ==
    [r \in Rows |-> IF writes[c][r] # NoWrite THEN writes[c][r][field] ELSE col[r]]

\* Mutant: a catch block that ends the transaction without undoing it.
KeepWrites(col, c, field) ==
    [r \in Rows |-> IF writes[c][r] # NoWrite THEN writes[c][r][field] ELSE col[r]]

\* A column of the committed table after ROLLBACK of the transaction of c.
RollbackColumn(col, c, field) == col

\* Mutant: a timer callback that never starts a run.
NeverStartsRun(p) == FALSE

\* The runs of process p that a timer callback finds still in flight.
ActiveCycles(p) == {c \in Cycles : procOf[c] = p /\ pc[c] # "idle"}

\* setInterval(checkAndProcessRollRequests, ...): whether a tick of process
\* p starts a run. The callback is the function itself; nothing looks at
\* the runs still in flight.
TickStartsRun(p) == TRUE

\* The timer of process p can fire: setInterval has run, clearInterval has
\* not, and the process has not exited.
TimerFires(p) == dbPollingIntervalId[p] = "active" /\ exitCode[p] = NULL

\* pool.connect() can resolve: the pool rejects it once pool.end() has been
\* called.
PoolConnectResolves(p) == ~poolEnding[p]

\* Mutant: a catch block that rethrows after the ROLLBACK.
CatchRethrows(held, ended) ==
    [borrowed |-> held, releases |-> IF held THEN 1 ELSE 0, txEnded |-> ended,
     rejected |-> TRUE]

\* How a run leaves through the catch and finally blocks: every error is
\* logged, none rethrown; the client, if one was obtained, is released once.
CatchExit(held, ended) ==
    [borrowed |-> held, releases |-> IF held THEN 1 ELSE 0, txEnded |-> ended,
     rejected |-> FALSE]

\* Mutant: a pool.end() that does not wait for checked-out clients.
PoolEndNoWait(p) == TRUE

\* await pool.end() can resolve: the pool waits until every client that
\* is checked out has been released (pg 8).
PoolEndResolves(p) == checkedOut[p] = 0

\* Mutant: a shutdown that leaves the timer running.
KeepInterval(id) == id

\* if (dbPollingIntervalId) clearInterval(dbPollingIntervalId)
ClearInterval(id) == IF id = "active" THEN "cleared" ELSE id

\* Mutant: a shutdownHelper without its flag test.
NeverShuttingDown(p) == FALSE

\* if (isShuttingDownHelper) return;
AlreadyShuttingDown(p) == isShuttingDownHelper[p]

\* ------------------------------------------------------------ initial state
\* The table as the producer filled it, and no run in flight.
\* ------------------------------------------------ direct-reply bot
\* The direct-reply variant of the helper (helper_index.js). Strings are
\* sequences of one-character strings.
Alphabet ==
    <<"a", "b", "c", "d", "e", "f", "g", "h", "i", "j", "k", "l", "m", "n",
      "o", "p", "q", "r", "s", "t", "u", "v", "w", "x", "y", "z">>
Capitals ==
    <<"A", "B", "C", "D", "E", "F", "G", "H", "I", "J", "K", "L", "M", "N",
      "O", "P", "Q", "R", "S", "T", "U", "V", "W", "X", "Y", "Z">>
DigitChars ==
    <<"0", "1", "2", "3", "4", "5", "6", "7", "8", "9">>

\* The literal "determine your roll" of the message handler.
Phrase ==
    <<"d", "e", "t", "e", "r", "m", "i", "n", "e", " ", "y", "o", "u", "r",
      " ", "r", "o", "l", "l">>

\* The literals of the regular expression /\/start|\/help/i.
StartCommand ==
    <<"/", "s", "t", "a", "r", "t">>
HelpCommand ==
    <<"/", "h", "e", "l", "p">>

\* The help text of the onText handler, abridged.
HelpText ==
    <<"I", " ", "a", "m", " ", "a", " ", "D", "i", "c", "e", " ", "H", "e",
      "l", "p", "e", "r", " ", "B", "o", "t", ".">>

\* Message texts delivered to the bot.
Text1 ==
    <<"d", "e", "t", "e", "r", "m", "i", "n", "e", " ", "y", "o", "u", "r",
      " ", "r", "o", "l", "l">>
Text2 ==
    <<"P", "l", "e", "a", "s", "e", " ", "D", "E", "T", "E", "R", "M", "I",
      "N", "E", " ", "y", "o", "u", "r", " ", "R", "o", "l", "l", " ", "n",
      "o", "w">>
Text3 ==
    <<"d", "e", "t", "e", "r", "m", "i", "n", "e", " ", "y", "o", "u", "r",
      " ", "r", "o", "l">>
Text4 ==
    <<"/", "h", "e", "l", "p", " ", "d", "e", "t", "e", "r", "m", "i", "n",
      "e", " ", "y", "o", "u", "r", " ", "r", "o", "l", "l">>
Text5 ==
    <<"/", "H", "e", "l", "p">>

\* msg.text absent or empty: both are falsy.
NoText == <<>>
Texts == {Text1, Text2, Text3, Text4, Text5, NoText}

\* msg.from.id and msg.chat.id of the messages delivered.
SenderIds == {7, 78}
ChatIds == {100, 101}
\* Values of the environment option MAIN_CASINO_BOT_ID_TO_LISTEN_TO.
ConfiguredIds == {<<"7">>, <<"7", "8">>}

\* Math.random() returns RandomSamples / RandomScale, a number in [0, 1).
RandomScale == 12
RandomSamples == {0, 7, 11}

NoMsg == [chat |-> 0, message_id |-> 0, from |-> 0, text |-> NoText]
NoSettle == [handler |-> "none", ok |-> TRUE]

\* Mutant: a comparison that keeps the letter case.
KeepCase(t) == t

\* String.prototype.toLowerCase
toLowerCase(t) ==
    [i \in 1..Len(t) |->
        IF \E k \in 1..Len(Capitals) : Capitals[k] = t[i]
        THEN Alphabet[CHOOSE k \in 1..Len(Capitals) : Capitals[k] = t[i]]
        ELSE t[i]]

\* String.prototype.includes
Includes(t, sub) ==
    \E k \in 0..(Len(t) - Len(sub)) :
        \A i \in 1..Len(sub) : t[k + i] = sub[i]

\* String(n) and the template literal `${n}` for a non-negative integer.
RECURSIVE String(_)
String(n) ==
    IF n < 10 THEN <<DigitChars[n + 1]>>
    ELSE Append(String(n \div 10), DigitChars[(n % 10) + 1])

\* Math.floor(Math.random() * 6) + 1 for Math.random() = u / RandomScale
RollOf(u) == ((u * 6) \div RandomScale) + 1

\* The condition of the message handler.
IsPrompt(m) ==
    /\ String(m.from) = MAIN_CASINO_BOT_ID_TO_LISTEN_TO
    /\ m.text # NoText
    /\ Includes(toLowerCase(m.text), Phrase)

\* bot.onText(/\/start|\/help/i, ...) matches the text of the message.
IsCommand(m) ==
    /\ m.text # NoText
    /\ \/ Includes(toLowerCase(m.text), StartCommand)
       \/ Includes(toLowerCase(m.text), HelpCommand)

\* The direct-reply bot is not part of the deployment.
ReplyIdle ==
    /\ MAIN_CASINO_BOT_ID_TO_LISTEN_TO = <<"7">>
    /\ replyUp = FALSE
    /\ msgCount = 0
    /\ lastMsg = NoMsg
    /\ pending = {}
    /\ lastSettled = NoSettle

StoreInit ==
    /\ MAX_REQUESTS_PER_CYCLE \in MaxRequestsOptions
    /\ status = [r \in Rows |-> "pending"]
    /\ roll_value = [r \in Rows |-> NULL]
    /\ processed_at = [r \in Rows |-> NULL]
    /\ requested_at \in RequestedAtTables
    /\ emoji_type = [r \in Rows |-> EmojiOf(r)]
    /\ txOpen = [c \in Cycles |-> FALSE]
    /\ txStart = [c \in Cycles |-> 0]
    /\ locks = [c \in Cycles |-> {}]
    /\ writes = [c \in Cycles |-> [r \in Rows |-> NoWrite]]
    /\ checkedOut = [p \in Procs |-> 0]
    /\ procOf = [c \in Cycles |-> NoProc]
    /\ pc = [c \in Cycles |-> "idle"]
    /\ batch = [c \in Cycles |-> <<>>]
    /\ idx = [c \in Cycles |-> 0]
    /\ rollValue = [c \in Cycles |-> NULL]
    /\ updateStatus = [c \in Cycles |-> "error"]
    /\ calls = [c \in Cycles |-> <<>>]
    /\ lastExit = NoExit
    /\ sendCount = [r \in Rows |-> 0]
    /\ clock = 0

\* Every worker has finished startHelperBot: its timer is set, its bot is
\* polling, and no signal has arrived.
Init ==
    /\ StoreInit
    /\ startup = [p \in Procs |-> "done"]
    /\ shutdown = [p \in Procs |-> "none"]
    /\ isShuttingDownHelper = [p \in Procs |-> FALSE]
    /\ dbPollingIntervalId = [p \in Procs |-> "active"]
    /\ botPolling = [p \in Procs |-> TRUE]
    /\ poolEnding = [p \in Procs |-> FALSE]
    /\ exitCode = [p \in Procs |-> NULL]
    /\ signals = [p \in Procs |-> 0]
    /\ shutdownCalls = [p \in Procs |-> NoCalls]
    /\ shutdownReason = [p \in Procs |-> NoReason]
    /\ ReplyIdle

\* ------------------------------------------------------------ actions
\* The locals of a run that is not in flight.
EndCycle(c) ==
    /\ pc' = [pc EXCEPT ![c] = "idle"]
    /\ procOf' = [procOf EXCEPT ![c] = NoProc]
    /\ batch' = [batch EXCEPT ![c] = <<>>]
    /\ idx' = [idx EXCEPT ![c] = 0]
    /\ rollValue' = [rollValue EXCEPT ![c] = NULL]
    /\ updateStatus' = [updateStatus EXCEPT ![c] = "error"]
    /\ calls' = [calls EXCEPT ![c] = <<>>]

\* The connection of run c once its transaction has ended or its session
\* has been given up.
EndTransaction(c) ==
    /\ txOpen' = [txOpen EXCEPT ![c] = FALSE]
    /\ txStart' = [txStart EXCEPT ![c] = 0]
    /\ locks' = [locks EXCEPT ![c] = {}]
    /\ writes' = [writes EXCEPT ![c] = [r \in Rows |-> NoWrite]]

\* client.release() in the finally block.
Release(c) == checkedOut' = [checkedOut EXCEPT ![procOf[c]] = @ - 1]

\* The run a tick starts: the lowest free run identifier.
NewRun(c) ==
    /\ pc[c] = "idle"
    /\ \A d \in Cycles : pc[d] = "idle" => c <= d

\* The timer of process p fires: the callback runs, client = await
\* pool.connect() resolves, await client.query('BEGIN') resolves, and the
\* claim query is issued.
Tick(p) ==
    /\ TimerFires(p)
    /\ TickStartsRun(p)
    /\ PoolConnectResolves(p)
    /\ clock < MaxClock
    /\ \E c \in Cycles :
        /\ NewRun(c)
        /\ procOf' = [procOf EXCEPT ![c] = p]
        /\ pc' = [pc EXCEPT ![c] = "select"]
        /\ clock' = clock + 1
        /\ txOpen' = [txOpen EXCEPT ![c] = TRUE]
        /\ txStart' = [txStart EXCEPT ![c] = clock']
    /\ checkedOut' = [checkedOut EXCEPT ![p] = @ + 1]
    /\ UNCHANGED <<lifeVars, configVars, replyVars, tableVars, locks, writes, batch, idx, rollValue,
                   updateStatus, calls, lastExit, sendCount>>

\* The timer of process p fires and pool.connect() rejects: catch with
\* client = null (no ROLLBACK), finally with client = null (no release).
TickConnectRejects(p) ==
    /\ TimerFires(p)
    /\ TickStartsRun(p)
    /\ \E c \in Cycles : NewRun(c)
    /\ lastExit' = CatchExit(FALSE, TRUE)
    /\ UNCHANGED <<lifeVars, configVars, replyVars, tableVars, sessVars, procOf, pc, batch, idx, rollValue,
                   updateStatus, calls, sendCount, clock>>

\* The timer of process p fires, pool.connect() resolves and BEGIN rejects:
\* control passes to the catch block, which issues ROLLBACK.
TickBeginRejects(p) ==
    /\ TimerFires(p)
    /\ TickStartsRun(p)
    /\ PoolConnectResolves(p)
    /\ \E c \in Cycles :
        /\ NewRun(c)
        /\ procOf' = [procOf EXCEPT ![c] = p]
        /\ pc' = [pc EXCEPT ![c] = "rollback"]
    /\ checkedOut' = [checkedOut EXCEPT ![p] = @ + 1]
    /\ UNCHANGED <<lifeVars, configVars, replyVars, tableVars, txOpen, txStart, locks, writes, batch,
                   idx, rollValue, updateStatus, calls, lastExit, sendCount,
                   clock>>

\* A later client.query(...) of the try block rejects (the SELECT, an
\* UPDATE or a COMMIT): the statement has no effect, control passes to the
\* catch block, which issues ROLLBACK.
QueryRejects(c) ==
    /\ pc[c] \in {"select", "commitEmpty", "update", "commit"}
    /\ pc' = [pc EXCEPT ![c] = "rollback"]
    /\ UNCHANGED <<lifeVars, configVars, replyVars, tableVars, sessVars, procOf, batch, idx, rollValue,
                   updateStatus, calls, lastExit, sendCount, clock>>

\* const result = await client.query(selectQuery, [MAX_REQUESTS_PER_CYCLE])
\* resolves. An empty result issues COMMIT; otherwise the loop starts with
\* the first row and calls bot.sendDice.
Select(c) ==
    /\ pc[c] = "select"
    /\ \E s \in SelectForUpdateSkipLocked(c, MAX_REQUESTS_PER_CYCLE) :
        /\ batch' = [batch EXCEPT ![c] = s]
        /\ locks' = [locks EXCEPT ![c] = @ \cup Range(s)]
        /\ IF Len(s) = 0
           THEN /\ pc' = [pc EXCEPT ![c] = "commitEmpty"]
                /\ UNCHANGED idx
           ELSE /\ pc' = [pc EXCEPT ![c] = "send"]
                /\ idx' = [idx EXCEPT ![c] = 1]
    /\ UNCHANGED <<lifeVars, configVars, replyVars, tableVars, txOpen, txStart, writes, checkedOut, procOf,
                   rollValue, updateStatus, calls, lastExit, sendCount,
                   clock>>

\* The COMMIT of an empty batch resolves: client.release(); return; and the
\* finally block calls client.release() again on the same client, which the
\* pool answers by throwing, so the run's promise rejects.
CommitEmpty(c) ==
    /\ pc[c] = "commitEmpty"
    /\ status' = CommitColumn(status, c, "status")
    /\ roll_value' = CommitColumn(roll_value, c, "roll_value")
    /\ processed_at' = CommitColumn(processed_at, c, "processed_at")
    /\ EndTransaction(c)
    /\ Release(c)
    /\ lastExit' = [borrowed |-> TRUE, releases |-> 2, txEnded |-> TRUE,
                    rejected |-> TRUE]
    /\ EndCycle(c)
    /\ UNCHANGED <<lifeVars, configVars, replyVars, requested_at, emoji_type, sendCount, clock>>

\* await bot.sendDice(request.chat_id, { emoji: emojiToSend }) settles; the
\* update of the row is issued.
Send(c) ==
    /\ pc[c] = "send"
    /\ LET r == batch[c][idx[c]] IN
       \E resp \in Responses(emojiToSend(r)) :
        /\ pc' = [pc EXCEPT ![c] = AfterSend(resp).pc]
        /\ rollValue' = [rollValue EXCEPT ![c] = AfterSend(resp).rollValue]
        /\ updateStatus' = [updateStatus EXCEPT ![c] = AfterSend(resp).updateStatus]
        /\ calls' = [calls EXCEPT ![c] =
              Append(@, [row |-> r, chat |-> chat_id(r),
                         emoji |-> emojiToSend(r),
                         ok |-> resp.kind = "dice", value |-> resp.value])]
        /\ sendCount' = [sendCount EXCEPT ![r] = @ + 1]
    /\ UNCHANGED <<lifeVars, configVars, replyVars, tableVars, sessVars, procOf, batch, idx, lastExit, clock>>

\* await client.query(updateQuery, [updateStatus, rollValue, request_id])
\* resolves; rowCount 0 only logs a warning. Then the next row, or COMMIT.
Update(c) ==
    /\ pc[c] = "update"
    /\ LET r == batch[c][idx[c]] IN
       writes' = IF UpdateRowCount(c, r) > 0
                 THEN [writes EXCEPT ![c][r] =
                          UpdateSet(c, updateStatus[c], rollValue[c])]
                 ELSE writes
    /\ IF idx[c] < Len(batch[c])
       THEN /\ idx' = [idx EXCEPT ![c] = @ + 1]
            /\ pc' = [pc EXCEPT ![c] = "send"]
       ELSE /\ pc' = [pc EXCEPT ![c] = "commit"]
            /\ UNCHANGED idx
    /\ rollValue' = [rollValue EXCEPT ![c] = NULL]
    /\ updateStatus' = [updateStatus EXCEPT ![c] = "error"]
    /\ UNCHANGED <<lifeVars, configVars, replyVars, tableVars, txOpen, txStart, locks, checkedOut, procOf,
                   batch, calls, lastExit, sendCount, clock>>

\* The COMMIT after the loop resolves; finally releases the client.
Commit(c) ==
    /\ pc[c] = "commit"
    /\ status' = CommitColumn(status, c, "status")
    /\ roll_value' = CommitColumn(roll_value, c, "roll_value")
    /\ processed_at' = CommitColumn(processed_at, c, "processed_at")
    /\ EndTransaction(c)
    /\ Release(c)
    /\ lastExit' = [borrowed |-> TRUE, releases |-> 1, txEnded |-> TRUE,
                    rejected |-> FALSE]
    /\ EndCycle(c)
    /\ UNCHANGED <<lifeVars, configVars, replyVars, requested_at, emoji_type, sendCount, clock>>

\* The ROLLBACK of the catch block resolves; finally releases the client.
Rollback(c) ==
    /\ pc[c] = "rollback"
    /\ status' = RollbackColumn(status, c, "status")
    /\ roll_value' = RollbackColumn(roll_value, c, "roll_value")
    /\ processed_at' = RollbackColumn(processed_at, c, "processed_at")
    /\ EndTransaction(c)
    /\ Release(c)
    /\ lastExit' = CatchExit(TRUE, TRUE)
    /\ EndCycle(c)
    /\ UNCHANGED <<lifeVars, configVars, replyVars, requested_at, emoji_type, sendCount, clock>>

\* The ROLLBACK rejects: the error is only logged and finally releases the
\* client, its transaction neither committed nor rolled back. ROLLBACK
\* rejects only on a lost session, whose transaction the store aborts.
RollbackRejects(c) ==
    /\ pc[c] = "rollback"
    /\ status' = RollbackColumn(status, c, "status")
    /\ roll_value' = RollbackColumn(roll_value, c, "roll_value")
    /\ processed_at' = RollbackColumn(processed_at, c, "processed_at")
    /\ EndTransaction(c)
    /\ Release(c)
    /\ lastExit' = CatchExit(TRUE, ~txOpen[c])
    /\ EndCycle(c)
    /\ UNCHANGED <<lifeVars, configVars, replyVars, requested_at, emoji_type, sendCount, clock>>

Next ==
    \/ \E p \in Procs : Tick(p)
    \/ \E p \in Procs : TickConnectRejects(p)
    \/ \E p \in Procs : TickBeginRejects(p)
    \/ \E c \in Cycles : QueryRejects(c)
    \/ \E c \in Cycles : Select(c)
    \/ \E c \in Cycles : CommitEmpty(c)
    \/ \E c \in Cycles : Send(c)
    \/ \E c \in Cycles : Update(c)
    \/ \E c \in Cycles : Commit(c)
    \/ \E c \in Cycles : Rollback(c)
    \/ \E c \in Cycles : RollbackRejects(c)

Spec == Init /\ [][Next]_vars

\* ------------------------------------------------- the simulated race
\* Scenario C of the specification: a writer outside the workers sets a
\* claimed row to completed between the claim and the row's update.
\* PostgreSQL makes such a writer wait for the row lock, so the step is part
\* of RaceSpec only, which stands for a store that lets the writer through.
ExternalAlter(r) ==
    /\ status[r] = "pending"
    /\ \E c \in Cycles : r \in Range(batch[c]) /\ writes[c][r] = NoWrite
    /\ status' = [status EXCEPT ![r] = "completed"]
    /\ roll_value' = [roll_value EXCEPT ![r] = 6]
    /\ processed_at' = [processed_at EXCEPT ![r] = clock]
    /\ UNCHANGED <<lifeVars, configVars, replyVars, requested_at, emoji_type, sessVars, cycleVars,
                   sendCount, clock>>

\* The scenario has one worker, a limit of two rows, and a store that
\* answers every statement.
RaceInit ==
    /\ Init
    /\ MAX_REQUESTS_PER_CYCLE = 2
    /\ requested_at = [r \in Rows |-> 1 + (r % 2)]

RaceNext ==
    \/ Tick("w1")
    \/ \E c \in Cycles : Select(c)
    \/ \E c \in Cycles : CommitEmpty(c)
    \/ \E c \in Cycles : Send(c)
    \/ \E c \in Cycles : Update(c)
    \/ \E c \in Cycles : Commit(c)
    \/ \E r \in Rows : ExternalAlter(r)

RaceSpec == RaceInit /\ [][RaceNext]_vars

\* ------------------------------------------------- a store that answers
\* The workers keep ticking, every connect, statement and channel call
\* returns (a channel call may return a failure), and no signal arrives.
\* Timers fire and awaited promises settle, hence the weak fairness.
LiveNext ==
    \/ \E p \in Procs : Tick(p)
    \/ \E c \in Cycles : Select(c)
    \/ \E c \in Cycles : CommitEmpty(c)
    \/ \E c \in Cycles : Send(c)
    \/ \E c \in Cycles : Update(c)
    \/ \E c \in Cycles : Commit(c)

LiveSpec ==
    /\ Init
    /\ [][LiveNext]_vars
    /\ WF_vars(\E p \in Procs : Tick(p))
    /\ \A c \in Cycles :
          /\ WF_vars(Select(c))
          /\ WF_vars(CommitEmpty(c))
          /\ WF_vars(Send(c))
          /\ WF_vars(Update(c))
          /\ WF_vars(Commit(c))

\* ------------------------------------------------- startup and shutdown
\* The workers whose start is followed from the launch of the script.
Launched == {"w1"}

runVars == <<txOpen, txStart, locks, writes, cycleVars>>

\* The script has passed its configuration checks and the process has not
\* exited: its handlers are registered and its promises can settle.
Running(p) == startup[p] # "off" /\ exitCode[p] = NULL

\* One deployment: a limit of two rows, the newest row inserted first.
LifeInit ==
    /\ StoreInit
    /\ MAX_REQUESTS_PER_CYCLE = 2
    /\ requested_at = [r \in Rows |-> NumRows + 1 - r]
    /\ startup = [p \in Procs |-> "off"]
    /\ shutdown = [p \in Procs |-> "none"]
    /\ isShuttingDownHelper = [p \in Procs |-> FALSE]
    /\ dbPollingIntervalId = [p \in Procs |-> "null"]
    /\ botPolling = [p \in Procs |-> FALSE]
    /\ poolEnding = [p \in Procs |-> FALSE]
    /\ exitCode = [p \in Procs |-> NULL]
    /\ signals = [p \in Procs |-> 0]
    /\ shutdownCalls = [p \in Procs |-> NoCalls]
    /\ shutdownReason = [p \in Procs |-> NoReason]
    /\ ReplyIdle

\* What process.exit does to the runs of p still in flight: they stop where
\* they are, their connections close and the store aborts their
\* transactions.
KillRuns(p) ==
    /\ txOpen' = [c \in Cycles |-> IF procOf[c] = p THEN FALSE ELSE txOpen[c]]
    /\ txStart' = [c \in Cycles |-> IF procOf[c] = p THEN 0 ELSE txStart[c]]
    /\ locks' = [c \in Cycles |-> IF procOf[c] = p THEN {} ELSE locks[c]]
    /\ writes' = [c \in Cycles |->
          IF procOf[c] = p THEN [r \in Rows |-> NoWrite] ELSE writes[c]]
    /\ checkedOut' = [checkedOut EXCEPT ![p] = 0]
    /\ pc' = [c \in Cycles |-> IF procOf[c] = p THEN "idle" ELSE pc[c]]
    /\ batch' = [c \in Cycles |-> IF procOf[c] = p THEN <<>> ELSE batch[c]]
    /\ idx' = [c \in Cycles |-> IF procOf[c] = p THEN 0 ELSE idx[c]]
    /\ rollValue' = [c \in Cycles |-> IF procOf[c] = p THEN NULL ELSE rollValue[c]]
    /\ updateStatus' = [c \in Cycles |->
          IF procOf[c] = p THEN "error" ELSE updateStatus[c]]
    /\ calls' = [c \in Cycles |-> IF procOf[c] = p THEN <<>> ELSE calls[c]]
    /\ procOf' = [c \in Cycles |-> IF procOf[c] = p THEN NoProc ELSE procOf[c]]
    /\ UNCHANGED lastExit

\* process.exit(code)
ProcessExit(p, code) ==
    /\ exitCode' = [exitCode EXCEPT ![p] = code]
    /\ KillRuns(p)

\* The script starts with both required settings: the pool and the bot
\* (polling: true) are created, the handlers registered, and startHelperBot
\* runs up to await pool.connect().
Launch(p) ==
    /\ startup[p] = "off" /\ exitCode[p] = NULL
    /\ startup' = [startup EXCEPT ![p] = "connect"]
    /\ botPolling' = [botPolling EXCEPT ![p] = TRUE]
    /\ UNCHANGED <<configVars, replyVars, tableVars, sessVars, cycleVars, sendCount, clock,
                   shutdown, isShuttingDownHelper, dbPollingIntervalId,
                   poolEnding, exitCode, signals, shutdownCalls, shutdownReason>>

\* The script starts without HELPER_BOT_TOKEN or DATABASE_URL:
\* process.exit(1) before the pool and the bot exist.
LaunchMissingEnv(p) ==
    /\ startup[p] = "off" /\ exitCode[p] = NULL
    /\ startup' = [startup EXCEPT ![p] = "failed"]
    /\ exitCode' = [exitCode EXCEPT ![p] = 1]
    /\ UNCHANGED <<configVars, replyVars, tableVars, sessVars, cycleVars, sendCount, clock,
                   shutdown, isShuttingDownHelper, dbPollingIntervalId,
                   botPolling, poolEnding, signals, shutdownCalls, shutdownReason>>

\* The catch block of startHelperBot: await pool.end() inside try/catch,
\* then process.exit(1). A pool.end() on a pool that is already ending
\* rejects at once; otherwise the function waits for it.
StartupCatch(p) ==
    IF poolEnding[p]
    THEN /\ startup' = [startup EXCEPT ![p] = "failed"]
         /\ ProcessExit(p, 1)
         /\ UNCHANGED poolEnding
    ELSE /\ startup' = [startup EXCEPT ![p] = "poolEnd"]
         /\ poolEnding' = [poolEnding EXCEPT ![p] = TRUE]
         /\ UNCHANGED <<exitCode, runVars, checkedOut>>

\* const dbClient = await pool.connect() resolves; SELECT NOW() is issued.
StartupConnectResolves(p) ==
    /\ Running(p) /\ startup[p] = "connect"
    /\ startup' = [startup EXCEPT ![p] = "query"]
    /\ checkedOut' = [checkedOut EXCEPT ![p] = @ + 1]
    /\ UNCHANGED <<configVars, replyVars, tableVars, runVars, sendCount, clock,
                   shutdown, isShuttingDownHelper, dbPollingIntervalId,
                   botPolling, poolEnding, exitCode, signals, shutdownCalls, shutdownReason>>

\* await pool.connect() rejects.
StartupConnectRejects(p) ==
    /\ Running(p) /\ startup[p] = "connect"
    /\ StartupCatch(p)
    /\ UNCHANGED <<configVars, replyVars, tableVars, sendCount, clock,
                   shutdown, isShuttingDownHelper, dbPollingIntervalId,
                   botPolling, signals, shutdownCalls, shutdownReason>>

\* await dbClient.query('SELECT NOW()') resolves; dbClient.release(); and
\* bot.getMe() is called.
StartupQueryResolves(p) ==
    /\ Running(p) /\ startup[p] = "query"
    /\ startup' = [startup EXCEPT ![p] = "getMe"]
    /\ checkedOut' = [checkedOut EXCEPT ![p] = @ - 1]
    /\ UNCHANGED <<configVars, replyVars, tableVars, runVars, sendCount, clock,
                   shutdown, isShuttingDownHelper, dbPollingIntervalId,
                   botPolling, poolEnding, exitCode, signals, shutdownCalls, shutdownReason>>

\* await dbClient.query('SELECT NOW()') rejects: control passes to the catch
\* block with dbClient still checked out.
StartupQueryRejects(p) ==
    /\ Running(p) /\ startup[p] = "query"
    /\ StartupCatch(p)
    /\ UNCHANGED <<configVars, replyVars, tableVars, sendCount, clock,
                   shutdown, isShuttingDownHelper, dbPollingIntervalId,
                   botPolling, signals, shutdownCalls, shutdownReason>>

\* await bot.getMe() resolves: dbPollingIntervalId = setInterval(...).
StartupGetMeResolves(p) ==
    /\ Running(p) /\ startup[p] = "getMe"
    /\ startup' = [startup EXCEPT ![p] = "done"]
    /\ dbPollingIntervalId' = [dbPollingIntervalId EXCEPT ![p] = "active"]
    /\ UNCHANGED <<configVars, replyVars, tableVars, sessVars, cycleVars, sendCount, clock,
                   shutdown, isShuttingDownHelper, botPolling, poolEnding,
                   exitCode, signals, shutdownCalls, shutdownReason>>

\* await bot.getMe() rejects.
StartupGetMeRejects(p) ==
    /\ Running(p) /\ startup[p] = "getMe"
    /\ StartupCatch(p)
    /\ UNCHANGED <<configVars, replyVars, tableVars, sendCount, clock,
                   shutdown, isShuttingDownHelper, dbPollingIntervalId,
                   botPolling, signals, shutdownCalls, shutdownReason>>

\* The await pool.end() of the startup catch block resolves:
\* process.exit(1).
StartupPoolEndSettles(p) ==
    /\ Running(p) /\ startup[p] = "poolEnd"
    /\ PoolEndResolves(p)
    /\ startup' = [startup EXCEPT ![p] = "failed"]
    /\ ProcessExit(p, 1)
    /\ UNCHANGED <<configVars, replyVars, tableVars, sendCount, clock,
                   shutdown, isShuttingDownHelper, dbPollingIntervalId,
                   botPolling, poolEnding, signals, shutdownCalls, shutdownReason>>

\* shutdownHelper from if (pool) on, with made the calls it has made before:
\* await pool.end() inside try/catch, then process.exit(0).
ShutdownPoolEnd(p, made) ==
    /\ shutdownCalls' = [shutdownCalls EXCEPT ![p] = [made EXCEPT !.poolEnd = @ + 1]]
    /\ IF poolEnding[p]
       THEN /\ shutdown' = [shutdown EXCEPT ![p] = "done"]
            /\ ProcessExit(p, 0)
            /\ UNCHANGED poolEnding
       ELSE /\ shutdown' = [shutdown EXCEPT ![p] = "poolEnd"]
            /\ poolEnding' = [poolEnding EXCEPT ![p] = TRUE]
            /\ UNCHANGED <<exitCode, runVars, checkedOut>>

\* shutdownHelper(event) up to its first await, called by a handler.
\* clearInterval is called when dbPollingIntervalId is set.
ShutdownHelper(p, event) ==
    /\ signals[p] < MaxSignals
    /\ signals' = [signals EXCEPT ![p] = @ + 1]
    /\ IF AlreadyShuttingDown(p)
       THEN UNCHANGED <<isShuttingDownHelper, dbPollingIntervalId, botPolling,
                        shutdown, shutdownCalls, poolEnding, exitCode, runVars,
                        checkedOut, shutdownReason>>
       ELSE LET cleared == [shutdownCalls[p] EXCEPT !.clearInterval =
                               IF dbPollingIntervalId[p] = "null" THEN @ ELSE @ + 1]
            IN
            /\ isShuttingDownHelper' = [isShuttingDownHelper EXCEPT ![p] = TRUE]
            /\ shutdownReason' = [shutdownReason EXCEPT ![p] = event]
            /\ dbPollingIntervalId' = [dbPollingIntervalId EXCEPT ![p] =
                  ClearInterval(@)]
            /\ IF botPolling[p]
               THEN /\ botPolling' = [botPolling EXCEPT ![p] = FALSE]
                    /\ shutdown' = [shutdown EXCEPT ![p] = "stopPolling"]
                    /\ shutdownCalls' = [shutdownCalls EXCEPT ![p] =
                          [cleared EXCEPT !.stopPolling = @ + 1]]
                    /\ UNCHANGED <<poolEnding, exitCode, runVars, checkedOut>>
               ELSE /\ UNCHANGED botPolling
                    /\ ShutdownPoolEnd(p, cleared)
    /\ UNCHANGED <<configVars, replyVars, tableVars, sendCount, clock, startup>>

\* The SIGINT and SIGTERM handlers: await shutdownHelper(name of the
\* signal); the two differ in the name only.
Signal(p) ==
    /\ Running(p)
    /\ ShutdownHelper(p, "SIGTERM")

\* The uncaughtException handler:
\* shutdownHelper('uncaughtException_exit').catch(() => process.exit(1)).
\* The promise of shutdownHelper does not reject, both of its awaits being
\* inside try/catch, so the catch callback never runs.
UncaughtException(p) ==
    /\ Running(p)
    /\ ShutdownHelper(p, "uncaughtException_exit")

\* await bot.stopPolling({ cancel: true }) settles (a rejection is only
\* logged); pool.end() is called.
StopPollingSettles(p) ==
    /\ Running(p) /\ shutdown[p] = "stopPolling"
    /\ ShutdownPoolEnd(p, shutdownCalls[p])
    /\ UNCHANGED <<configVars, replyVars, tableVars, sendCount, clock, startup,
                   isShuttingDownHelper, dbPollingIntervalId, botPolling,
                   signals, shutdownReason>>

\* The await pool.end() of shutdownHelper resolves: process.exit(0).
PoolEndSettles(p) ==
    /\ Running(p) /\ shutdown[p] = "poolEnd"
    /\ PoolEndResolves(p)
    /\ shutdown' = [shutdown EXCEPT ![p] = "done"]
    /\ ProcessExit(p, 0)
    /\ UNCHANGED <<configVars, replyVars, tableVars, sendCount, clock, startup,
                   isShuttingDownHelper, dbPollingIntervalId, botPolling,
                   poolEnding, signals, shutdownCalls, shutdownReason>>

LifeNext ==
    \/ \E p \in Launched : Launch(p)
    \/ \E p \in Launched : LaunchMissingEnv(p)
    \/ \E p \in Launched : StartupConnectResolves(p)
    \/ \E p \in Launched : StartupConnectRejects(p)
    \/ \E p \in Launched : StartupQueryResolves(p)
    \/ \E p \in Launched : StartupQueryRejects(p)
    \/ \E p \in Launched : StartupGetMeResolves(p)
    \/ \E p \in Launched : StartupGetMeRejects(p)
    \/ \E p \in Launched : StartupPoolEndSettles(p)
    \/ \E p \in Launched : Signal(p)
    \/ \E p \in Launched : StopPollingSettles(p)
    \/ \E p \in Launched : PoolEndSettles(p)
    \/ Next

LifeSpec == LifeInit /\ [][LifeNext]_vars

\* ------------------------------------------------ direct-reply bot
\* The direct-reply bot after startup, alone: no polling worker is
\* launched.
PollingOff ==
    /\ StoreInit
    /\ MAX_REQUESTS_PER_CYCLE = 2
    /\ requested_at = [r \in Rows |-> NumRows + 1 - r]
    /\ startup = [p \in Procs |-> "off"]
    /\ shutdown = [p \in Procs |-> "none"]
    /\ isShuttingDownHelper = [p \in Procs |-> FALSE]
    /\ dbPollingIntervalId = [p \in Procs |-> "null"]
    /\ botPolling = [p \in Procs |-> FALSE]
    /\ poolEnding = [p \in Procs |-> FALSE]
    /\ exitCode = [p \in Procs |-> NULL]
    /\ signals = [p \in Procs |-> 0]
    /\ shutdownCalls = [p \in Procs |-> NoCalls]
    /\ shutdownReason = [p \in Procs |-> NoReason]

ReplyInit ==
    /\ PollingOff
    /\ MAIN_CASINO_BOT_ID_TO_LISTEN_TO \in ConfiguredIds
    /\ replyUp = TRUE
    /\ msgCount = 0
    /\ lastMsg = NoMsg
    /\ pending = {}
    /\ lastSettled = NoSettle

pollVars == <<configVars, tableVars, sessVars, cycleVars, sendCount, clock, lifeVars>>

\* A message is delivered: the message handler runs up to its await of
\* bot.sendMessage, or to its end when the condition is false, and the
\* onText handler calls bot.sendMessage when the text matches.
Message(m) ==
    /\ replyUp
    /\ msgCount < MaxMessages
    /\ m.message_id = msgCount + 1
    /\ msgCount' = msgCount + 1
    /\ lastMsg' = m
    /\ \E u \in RandomSamples :
        LET reply == IF IsPrompt(m)
                     THEN {[handler |-> "message", chat |-> m.chat,
                            text |-> String(RollOf(u)),
                            reply_to_message_id |-> m.message_id]}
                     ELSE {}
            help == IF IsCommand(m)
                    THEN {[handler |-> "onText", chat |-> m.chat,
                           text |-> HelpText, reply_to_message_id |-> NULL]}
                    ELSE {}
        IN pending' = pending \cup reply \cup help
    /\ UNCHANGED <<MAIN_CASINO_BOT_ID_TO_LISTEN_TO, replyUp, lastSettled, pollVars>>

\* A bot.sendMessage call resolves.
SendMessageResolves ==
    /\ replyUp
    /\ \E s \in pending :
        /\ pending' = pending \ {s}
        /\ lastSettled' = [handler |-> s.handler, ok |-> TRUE]
    /\ UNCHANGED <<MAIN_CASINO_BOT_ID_TO_LISTEN_TO, replyUp, msgCount, lastMsg, pollVars>>

\* The awaited bot.sendMessage of the message handler rejects: the catch
\* block logs the error.
ReplyRejects ==
    /\ replyUp
    /\ \E s \in pending :
        /\ s.handler = "message"
        /\ pending' = pending \ {s}
        /\ lastSettled' = [handler |-> s.handler, ok |-> FALSE]
    /\ UNCHANGED <<MAIN_CASINO_BOT_ID_TO_LISTEN_TO, replyUp, msgCount, lastMsg, pollVars>>

\* The bot.sendMessage of the onText handler rejects; its promise is
\* neither awaited nor caught and the script registers no
\* unhandledRejection handler, so the runtime either warns or ends the
\* process, depending on its version.
HelpRejects ==
    /\ replyUp
    /\ \E s \in pending :
        /\ s.handler = "onText"
        /\ pending' = pending \ {s}
        /\ lastSettled' = [handler |-> s.handler, ok |-> FALSE]
    /\ replyUp' \in {TRUE, FALSE}
    /\ UNCHANGED <<MAIN_CASINO_BOT_ID_TO_LISTEN_TO, msgCount, lastMsg, pollVars>>

Messages ==
    [chat : ChatIds, message_id : 1..MaxMessages, from : SenderIds, text : Texts]

ReplyNext ==
    \/ \E m \in Messages : Message(m)
    \/ SendMessageResolves
    \/ ReplyRejects
    \/ HelpRejects

ReplySpec == ReplyInit /\ [][ReplyNext]_vars

\* ------------------------------------------------------------ exits
\* Both processes from launch to exit, the shutdown of each begun by a
\* signal or by an uncaught exception, with the timer's runs left out.
ExitNext ==
    \/ \E p \in Procs : Launch(p)
    \/ \E p \in Procs : LaunchMissingEnv(p)
    \/ \E p \in Procs : StartupConnectResolves(p)
    \/ \E p \in Procs : StartupConnectRejects(p)
    \/ \E p \in Procs : StartupQueryResolves(p)
    \/ \E p \in Procs : StartupQueryRejects(p)
    \/ \E p \in Procs : StartupGetMeResolves(p)
    \/ \E p \in Procs : StartupGetMeRejects(p)
    \/ \E p \in Procs : StartupPoolEndSettles(p)
    \/ \E p \in Procs : Signal(p)
    \/ \E p \in Procs : UncaughtException(p)
    \/ \E p \in Procs : StopPollingSettles(p)
    \/ \E p \in Procs : PoolEndSettles(p)

ExitSpec == LifeInit /\ [][ExitNext]_vars

\* ------------------------------------------------------------ properties
Terminal(r) == status[r] # "pending"
HeldByOther(c, r) == \E d \in Cycles \ {c} : r \in locks[d]

\* C1: two claim transactions that are open at the same time returned
\* disjoint sets of rows, in the same process or in different ones: every
\* row a transaction returned stays leased to it alone until it ends.
C1_DisjointClaims ==
    /\ \A c \in Cycles : txOpen[c] => Range(batch[c]) \subseteq locks[c]
    /\ \A c, d \in Cycles :
          (c # d /\ txOpen[c] /\ txOpen[d]) =>
              /\ Range(batch[c]) \cap Range(batch[d]) = {}
              /\ locks[c] \cap locks[d] = {}

C1_Witness ==
    \E c, d \in Cycles :
        /\ c # d /\ txOpen[c] /\ txOpen[d]
        /\ batch[c] # <<>> /\ batch[d] # <<>>

\* C2: within one worker process at most one batch cycle is in flight at
\* any time.
C2_OneCyclePerProcess == \A p \in Procs : Cardinality(ActiveCycles(p)) <= 1

\* C3: the notification channel is invoked at most once for each request
\* row, and every row is either pending or carries one terminal outcome.
C3_AtMostOneCallPerRow ==
    \A r \in Rows :
        /\ sendCount[r] <= 1
        /\ status[r] \in {"pending", "completed", "error"}
        /\ Terminal(r) <=> processed_at[r] # NULL

\* C4: a run that ends through the catch block leaves every row of its
\* batch pending with roll_value and processed_at null, with nothing of its
\* transaction left: no lock, no uncommitted update.
C4_RollbackRestoresBatch ==
    [][\A c \in Cycles :
          (pc[c] = "rollback" /\ pc'[c] = "idle") =>
              /\ \A r \in Range(batch[c]) :
                    /\ status'[r] = "pending"
                    /\ roll_value'[r] = NULL
                    /\ processed_at'[r] = NULL
              /\ ~txOpen'[c]
              /\ locks'[c] = {}
              /\ \A r \in Rows : writes'[c][r] = NoWrite]_vars

\* Only one transaction has begun, it claimed two rows and called the
\* channel for both (so the first row's outcome had been recorded), and it
\* is over with both rows pending.
C4_Witness ==
    /\ clock = 1
    /\ \A c \in Cycles : pc[c] = "idle"
    /\ \E r1, r2 \in Rows :
        /\ r1 # r2
        /\ sendCount[r1] = 1 /\ sendCount[r2] = 1
        /\ status[r1] = "pending" /\ status[r2] = "pending"

\* C5: a channel call that fails for one row never sends the run to the
\* catch block; the run goes on to record that row and the others, and the
\* commit gives every row of the batch the outcome of its own call: error
\* with a null roll_value for a failed call, completed with the returned
\* value otherwise.
C5_PerRowIsolation ==
    [][\A c \in Cycles :
          /\ (pc[c] = "send" /\ pc'[c] # "send") =>
                /\ pc'[c] = "update"
                /\ batch'[c] = batch[c]
                /\ Len(calls'[c]) = idx[c]
                /\ calls'[c][idx[c]].row = batch[c][idx[c]]
          /\ (pc[c] = "commit" /\ pc'[c] = "idle") =>
                /\ Len(calls[c]) = Len(batch[c])
                /\ \A i \in 1..Len(calls[c]) :
                      LET e == calls[c][i] IN
                      IF e.ok
                      THEN /\ status'[e.row] = "completed"
                           /\ roll_value'[e.row] = e.value
                      ELSE /\ status'[e.row] = "error"
                           /\ roll_value'[e.row] = NULL]_vars

\* One transaction committed an error row and a completed row.
C5_Witness ==
    \E r1, r2 \in Rows :
        /\ status[r1] = "error" /\ roll_value[r1] = NULL
        /\ status[r2] = "completed"
        /\ processed_at[r1] = processed_at[r2]

\* C6: for every row with a terminal status, roll_value is non-null iff the
\* status is completed, and a non-null roll_value is in 1..6.
C6_ResultInRange ==
    \A r \in Rows :
        Terminal(r) =>
            /\ roll_value[r] # NULL <=> status[r] = "completed"
            /\ roll_value[r] # NULL => roll_value[r] \in 1..6

\* C7: a row's committed status changes at most once, from pending to
\* completed or to error, and never changes again.
C7_StatusChangesOnce ==
    [][\A r \in Rows :
          /\ Terminal(r) => status'[r] = status[r]
          /\ status'[r] # status[r] => status'[r] \in {"completed", "error"}]_vars

\* A row is terminal while a later transaction has its claim query pending.
C7_Witness ==
    \E r \in Rows, c \in Cycles :
        /\ Terminal(r)
        /\ pc[c] = "select"
        /\ txStart[c] > processed_at[r]

\* C8: a pending row has roll_value and processed_at null; processed_at is
\* non-null iff the status is terminal; it is written by the update that
\* writes the terminal status and never changes afterwards.
C8_ProcessedAtOnce ==
    /\ [](\A r \in Rows :
            /\ status[r] = "pending" => roll_value[r] = NULL /\ processed_at[r] = NULL
            /\ processed_at[r] # NULL <=> Terminal(r))
    /\ [][\A r \in Rows :
            /\ processed_at[r] # NULL => processed_at'[r] = processed_at[r]
            /\ processed_at'[r] # processed_at[r] =>
                  status[r] = "pending" /\ status'[r] # "pending"]_vars

C8_Witness ==
    \E r1, r2 \in Rows :
        /\ Terminal(r1) /\ processed_at[r1] # NULL
        /\ status[r2] = "pending" /\ processed_at[r2] = NULL
        /\ sendCount[r2] > 0

\* C9: a claim with limit N returns at most N distinct rows, each pending
\* and not leased by another transaction when the claim runs, in
\* non-decreasing requested_at order; and they are the oldest such rows: a
\* pending unleased row is left out only of a full result, and is not older
\* than any row of the result.
C9_ClaimOldestFirst ==
    [][\A c \in Cycles :
          (pc[c] = "select" /\ pc'[c] \in {"send", "commitEmpty"}) =>
              LET s == batch'[c]
                  n == Len(s) IN
              /\ n <= MAX_REQUESTS_PER_CYCLE
              /\ \A i \in 1..n : status[s[i]] = "pending" /\ ~HeldByOther(c, s[i])
              /\ \A i, j \in 1..n : i < j =>
                    s[i] # s[j] /\ requested_at[s[i]] <= requested_at[s[j]]
              /\ \A r \in Rows \ Range(s) :
                    (status[r] = "pending" /\ ~HeldByOther(c, r)) =>
                        /\ n = MAX_REQUESTS_PER_CYCLE
                        /\ \A i \in 1..n : requested_at[s[i]] <= requested_at[r]]_vars

\* A full result that leaves out a pending unleased row with a smaller
\* request identifier than a row it returns.
C9_Witness ==
    \E c \in Cycles, r \in Rows :
        /\ pc[c] = "send" /\ idx[c] = 1 /\ calls[c] = <<>>
        /\ Len(batch[c]) = MAX_REQUESTS_PER_CYCLE
        /\ r \notin Range(batch[c])
        /\ status[r] = "pending" /\ ~HeldByOther(c, r)
        /\ r < batch[c][1]

\* C10: every run that borrowed a client released it exactly once, and no
\* client stays checked out without a run in flight.
C10_ReleasedExactlyOnce ==
    /\ lastExit.borrowed => lastExit.releases = 1
    /\ \A p \in Procs : checkedOut[p] = Cardinality(ActiveCycles(p))

\* C11: a cycle whose claim returned no row commits an empty transaction
\* and has no side effects: it made no channel call, its commit changes no
\* row and no channel count, and the promise of the cycle does not reject.
C11_EmptyCycleNoEffect ==
    [][\A c \in Cycles :
          (pc[c] = "commitEmpty" /\ pc'[c] = "idle") =>
              /\ batch[c] = <<>> /\ calls[c] = <<>>
              /\ tableVars' = tableVars
              /\ sendCount' = sendCount
              /\ ~lastExit'.rejected]_vars

\* The rows a claim of run c can return: pending and not leased to another.
PendingUnleased(c) == {r \in Rows : status[r] = "pending" /\ ~HeldByOther(c, r)}

C14_TerminalNeverReclaimed ==
    \A c \in Cycles :
        /\ \A r \in Range(batch[c]) : status[r] = "pending"
        /\ pc[c] = "send" => status[batch[c][idx[c]]] = "pending"

\* An error row was committed, and a transaction begun later has claimed
\* without returning it.
C14_Witness ==
    \E r \in Rows, c \in Cycles :
        /\ status[r] = "error"
        /\ txStart[c] > processed_at[r]
        /\ pc[c] \in {"send", "commitEmpty"}
        /\ r \notin Range(batch[c])
        /\ sendCount[r] = 1

\* C13: the update changes a row only if the row is still pending. An
\* update that finds its row no longer pending writes nothing and the run
\* goes on to the next row or to COMMIT; the COMMIT leaves the status,
\* roll_value and processed_at of such a row as they were.
C13_UpdateOnlyPending ==
    [][\A c \in Cycles :
          /\ (pc[c] = "update" /\ pc'[c] # "update" /\ pc'[c] # "rollback") =>
                LET r == batch[c][idx[c]] IN
                /\ writes'[c] # writes[c] => status[r] = "pending"
                /\ status[r] # "pending" =>
                      /\ writes'[c] = writes[c]
                      /\ tableVars' = tableVars
                      /\ pc'[c] = IF idx[c] < Len(batch[c]) THEN "send" ELSE "commit"
          /\ (pc[c] = "commit" /\ pc'[c] = "idle") =>
                \A r \in Range(batch[c]) :
                    status[r] # "pending" =>
                        /\ status'[r] = status[r]
                        /\ roll_value'[r] = roll_value[r]
                        /\ processed_at'[r] = processed_at[r]]_vars

\* A run is about to commit a batch of two rows: the update of the first
\* found it completed by the other writer and wrote nothing, the update of
\* the second was recorded.
C13_Witness ==
    \E c \in Cycles :
        /\ pc[c] = "commit"
        /\ Len(batch[c]) = 2
        /\ status[batch[c][1]] = "completed"
        /\ writes[c][batch[c][1]] = NoWrite
        /\ writes[c][batch[c][2]] # NoWrite

\* C15: a run that ends through the catch block, after a ROLLBACK that
\* resolved or rejected, or after a pool.connect() that rejected, does not
\* reject its promise, and leaves its process running with its timer set,
\* so that a later tick starts a run.
C15_FailedCycleNotFatal ==
    [][/\ \A c \in Cycles :
            (pc[c] = "rollback" /\ pc'[c] = "idle") =>
                /\ ~lastExit'.rejected
                /\ exitCode'[procOf[c]] = NULL
                /\ dbPollingIntervalId'[procOf[c]] = "active"
       /\ (pc' = pc /\ lastExit' # lastExit) =>
                /\ ~lastExit'.rejected
                /\ ~lastExit'.borrowed
                /\ exitCode' = exitCode
                /\ dbPollingIntervalId' = dbPollingIntervalId]_vars

\* The first transaction called the channel and ended without a commit;
\* the second has begun and its claim query is pending.
C15_Witness ==
    \E c \in Cycles :
        /\ pc[c] = "select" /\ txStart[c] = 2
        /\ \A d \in Cycles \ {c} : pc[d] = "idle"
        /\ \A r \in Rows : status[r] = "pending"
        /\ \E r \in Rows : sendCount[r] = 1
        /\ lastExit = CatchExit(TRUE, TRUE)

\* C16: while the workers keep ticking and every claim, channel call and
\* update returns, every row eventually has a terminal status, and keeps it.
C16_EventuallyTerminal ==
    \A r \in Rows : <>[](status[r] \in {"completed", "error"})

\* Every row is terminal, one of them after a channel failure, and not all
\* in the same transaction.
C16_Witness ==
    /\ \A r \in Rows : Terminal(r)
    /\ \E r1, r2 \in Rows :
          /\ status[r1] = "error"
          /\ processed_at[r1] # processed_at[r2]

\* C17: once shutdownHelper has set its flag in a process, no run starts in
\* that process.
C17_NoCycleAfterShutdown ==
    [][\A c \in Cycles :
          (pc[c] = "idle" /\ pc'[c] # "idle") =>
              ~isShuttingDownHelper[procOf'[c]]]_vars

\* C18: a run in flight is never cancelled: it ends only from its COMMIT or
\* its ROLLBACK, giving its client back; and a process exits only when none
\* of its runs is in flight, so also the pool has closed only then.
C18_InFlightCycleFinishes ==
    [][/\ \A c \in Cycles :
            (pc[c] # "idle" /\ pc'[c] = "idle") =>
                /\ pc[c] \in {"commit", "commitEmpty", "rollback"}
                /\ exitCode'[procOf[c]] = NULL
                /\ checkedOut'[procOf[c]] = checkedOut[procOf[c]] - 1
       /\ \A p \in Procs :
            (exitCode[p] = NULL /\ exitCode'[p] # NULL) =>
                ActiveCycles(p) = {}]_vars

\* shutdownHelper waits for pool.end() while a run of the process that has
\* recorded an outcome is about to commit.
C18_Witness ==
    \E p \in Procs, c \in Cycles :
        /\ isShuttingDownHelper[p] /\ shutdown[p] = "poolEnd"
        /\ exitCode[p] = NULL
        /\ procOf[c] = p /\ pc[c] = "commit"
        /\ \E r \in Rows : writes[c][r] # NoWrite

\* C19: a signal handled while the flag of shutdownHelper is set changes
\* nothing, and shutdownHelper calls clearInterval, bot.stopPolling and
\* pool.end at most once each.
C19_ShutdownIdempotent ==
    /\ [](\A p \in Procs :
            /\ shutdownCalls[p].clearInterval <= 1
            /\ shutdownCalls[p].stopPolling <= 1
            /\ shutdownCalls[p].poolEnd <= 1)
    /\ [][\A p \in Procs :
            (signals'[p] # signals[p] /\ isShuttingDownHelper[p]) =>
                UNCHANGED <<configVars, tableVars, sessVars, cycleVars,
                            sendCount, clock, startup, shutdown,
                            isShuttingDownHelper, dbPollingIntervalId,
                            botPolling, poolEnding, exitCode,
                            shutdownCalls>>]_vars

\* A second signal has been handled while shutdownHelper awaits pool.end()
\* with a run in flight; the timer was cleared once.
C19_Witness ==
    \E p \in Procs :
        /\ signals[p] = 2
        /\ shutdown[p] = "poolEnd" /\ exitCode[p] = NULL
        /\ shutdownCalls[p] = [clearInterval |-> 1, stopPolling |-> 1, poolEnd |-> 1]
        /\ ActiveCycles(p) # {}

\* C20: after a fatal startup failure the timer has not been created, no
\* run of the process exists, the process exits with code 1 and no other,
\* and while it has not exited its pending pool.end() can resolve.
C20_StartupFailureExits1 ==
    \A p \in Procs :
        startup[p] \in {"poolEnd", "failed"} =>
            /\ dbPollingIntervalId[p] = "null"
            /\ \A c \in Cycles : procOf[c] # p
            /\ exitCode[p] \in {NULL, 1}
            /\ exitCode[p] = NULL => PoolEndResolves(p)

\* C21: a process that has exited with code 1 had a fatal startup failure,
\* and one whose startup failed has exited with no other code; a process
\* that has exited with code 0 had handled a signal, its timer is not
\* running and shutdownHelper had called pool.end().
C21_ExitCodes ==
    \A p \in Procs :
        /\ exitCode[p] = 1 => startup[p] = "failed"
        /\ (startup[p] \in {"poolEnd", "failed"} /\ exitCode[p] # NULL) =>
              exitCode[p] = 1
        /\ exitCode[p] = 0 =>
              /\ isShuttingDownHelper[p]
              /\ dbPollingIntervalId[p] # "active"
              /\ shutdownCalls[p].poolEnd = 1

\* C22: a run handles its batch one row after another in the order of the
\* claim: while the call for row i is in progress, exactly the calls for
\* rows 1..i-1 have been made, in that order, and their outcomes recorded;
\* while the update of row i is pending, exactly the calls for rows 1..i
\* have been made. The batch is in requested_at order.
C22_SequentialInOrder ==
    \A c \in Cycles :
        /\ \A i \in 1..Len(calls[c]) :
              i <= Len(batch[c]) /\ calls[c][i].row = batch[c][i]
        /\ \A i, j \in 1..Len(batch[c]) :
              i < j => requested_at[batch[c][i]] <= requested_at[batch[c][j]]
        /\ pc[c] = "send" =>
              /\ idx[c] \in 1..Len(batch[c])
              /\ Len(calls[c]) = idx[c] - 1
              /\ \A i \in 1..(idx[c] - 1) : writes[c][batch[c][i]] # NoWrite
        /\ pc[c] = "update" =>
              /\ Len(calls[c]) = idx[c]
              /\ \A i \in 1..(idx[c] - 1) : writes[c][batch[c][i]] # NoWrite
              /\ writes[c][batch[c][idx[c]]] = NoWrite

\* The call for the second row of a batch is in progress, the first row's
\* call made and its outcome recorded, the second row not older than the
\* first.
C22_Witness ==
    \E c \in Cycles :
        /\ pc[c] = "send" /\ idx[c] = 2
        /\ Len(calls[c]) = 1
        /\ writes[c][batch[c][1]] # NoWrite
        /\ writes[c][batch[c][2]] = NoWrite
        /\ requested_at[batch[c][1]] < requested_at[batch[c][2]]

\* C23: an update is issued, and its uncommitted effect exists, only inside
\* the open transaction of the run that claimed the row and still holds its
\* lock: the row is in the run's batch, no other run holds it, and a run
\* whose transaction has ended has no update pending or recorded.
C23_UpdateInsideOwnLease ==
    \A c \in Cycles :
        /\ pc[c] = "update" =>
              /\ txOpen[c]
              /\ batch[c][idx[c]] \in locks[c]
              /\ ~HeldByOther(c, batch[c][idx[c]])
        /\ \A r \in Rows :
              writes[c][r] # NoWrite =>
                  /\ txOpen[c]
                  /\ r \in Range(batch[c])
                  /\ r \in locks[c]
                  /\ ~HeldByOther(c, r)
        /\ ~txOpen[c] => locks[c] = {} /\ pc[c] \notin {"send", "update", "commit"}

\* A run has recorded an update while another run's transaction is open and
\* holds a different row.
C23_Witness ==
    \E c \in Cycles : \E d \in Cycles \ {c} : \E r \in Rows :
        /\ writes[c][r] # NoWrite
        /\ txOpen[d]
        /\ locks[d] # {}
        /\ pc[d] = "update"

\* The number of calls a run has made for row r.
CallsFor(c, r) == Cardinality({i \in 1..Len(calls[c]) : calls[c][i].row = r})

\* C24: a run invokes the channel at most once for any row and only for
\* rows of its batch; once the loop is over it has invoked it exactly once
\* for each row of the batch, and the outcome recorded for a row is the one
\* of that single call (completed when it succeeded, error when it failed).
C24_OneCallPerClaimedRow ==
    \A c \in Cycles :
        /\ \A i \in 1..Len(calls[c]) : calls[c][i].row \in Range(batch[c])
        /\ \A r \in Rows : CallsFor(c, r) <= 1
        /\ pc[c] = "commit" =>
              \A r \in Range(batch[c]) : CallsFor(c, r) = 1
        /\ \A i \in 1..Len(calls[c]) :
              LET r == calls[c][i].row IN
              writes[c][r] # NoWrite =>
                  (writes[c][r].status = "completed") = calls[c][i].ok
        /\ \A r \in Rows :
              writes[c][r] # NoWrite =>
                  /\ CallsFor(c, r) = 1
                  /\ writes[c][r].status \in {"completed", "error"}

\* The loop of a run over a batch of two rows is over; the call for one row
\* failed and the call for the other succeeded, each made once.
C24_Witness ==
    \E c \in Cycles :
        /\ pc[c] = "commit"
        /\ Len(batch[c]) = 2
        /\ Len(calls[c]) = 2
        /\ ~calls[c][1].ok /\ writes[c][batch[c][1]].status = "error"
        /\ calls[c][2].ok /\ writes[c][batch[c][2]].status = "completed"

\* C25: shutdown performs its steps in a fixed order. The step that begins
\* a shutdown leaves the timer stopped before the listener is stopped or
\* the pool closed; the pool is closed only with the listener stopped and
\* before any exit with code 0; the process exits with code 0 only after
\* shutdown has stopped the listener and called pool.end(), whether or not
\* these calls succeeded.
C25_ShutdownOrder ==
    [][\A p \in Procs :
          /\ (~isShuttingDownHelper[p] /\ isShuttingDownHelper'[p]) =>
                /\ dbPollingIntervalId'[p] # "active"
                /\ dbPollingIntervalId[p] = "active" =>
                      shutdownCalls'[p].clearInterval = 1
                /\ shutdownCalls[p].stopPolling = 0
                /\ shutdownCalls[p].poolEnd = 0
          /\ shutdownCalls'[p].stopPolling # shutdownCalls[p].stopPolling =>
                /\ shutdownCalls'[p].stopPolling = 1
                /\ shutdownCalls'[p].poolEnd = 0
                /\ dbPollingIntervalId'[p] # "active"
                /\ exitCode'[p] = NULL
          /\ shutdownCalls'[p].poolEnd # shutdownCalls[p].poolEnd =>
                /\ shutdownCalls'[p].poolEnd = 1
                /\ ~botPolling'[p]
                /\ exitCode[p] = NULL
          /\ (exitCode[p] # 0 /\ exitCode'[p] = 0) =>
                /\ isShuttingDownHelper'[p]
                /\ ~botPolling'[p]
                /\ shutdownCalls'[p].poolEnd = 1
                /\ shutdown'[p] = "done"
    ]_vars

\* An operational process has shut down and exited with code 0: its timer
\* was stopped, its listener stopped and its pool closed, each once.
C25_Witness ==
    \E p \in Procs :
        /\ exitCode[p] = 0
        /\ startup[p] = "done"
        /\ dbPollingIntervalId[p] = "cleared"
        /\ shutdownCalls[p] = [clearInterval |-> 1, stopPolling |-> 1, poolEnd |-> 1]

\* C26: no step inserts or deletes a row or changes requested_at or
\* emoji_type (request_id, game_id, chat_id and user_id are fixed with the
\* row); a step that changes status, roll_value or processed_at of a row
\* is the commit of a run whose claimed batch contains the row.
C26_Frame ==
    [][/\ DOMAIN status' = Rows
       /\ DOMAIN roll_value' = Rows
       /\ DOMAIN processed_at' = Rows
       /\ requested_at' = requested_at
       /\ emoji_type' = emoji_type
       /\ \A r \in Rows :
             (\/ status'[r] # status[r]
              \/ roll_value'[r] # roll_value[r]
              \/ processed_at'[r] # processed_at[r]) =>
                 \E c \in Cycles :
                     /\ pc[c] = "commit" /\ pc'[c] = "idle"
                     /\ r \in Range(batch[c])
                     /\ r \in locks[c]
    ]_vars

\* A run has committed a batch of one row while the other row, outside the
\* batch, is pending as the producer left it, and no run is in flight.
C26_Witness ==
    /\ \A c \in Cycles : pc[c] = "idle"
    /\ \E r \in Rows : \E q \in Rows \ {r} :
        /\ status[r] # "pending"
        /\ status[q] = "pending"
        /\ roll_value[q] = NULL
        /\ processed_at[q] = NULL
        /\ sendCount[q] = 0

\* C27: every call a run has made was made with the chat_id of the row it
\* was made for and with that row's emoji_type, or with the six-sided die
\* when the row has none, whatever the other rows of the batch carry.
C27_CallArguments ==
    \A c \in Cycles : \A i \in 1..Len(calls[c]) :
        LET r == calls[c][i].row IN
        /\ calls[c][i].chat = chat_id(r)
        /\ emoji_type[r] # NoEmoji => calls[c][i].emoji = emoji_type[r]
        /\ emoji_type[r] = NoEmoji => calls[c][i].emoji = "dice"

\* One run has made two calls: one for a row without emoji_type, made with
\* the die, and one for a row with emoji_type, made with it, to different
\* chats.
C27_Witness ==
    \E c \in Cycles : \E i, j \in 1..Len(calls[c]) :
        /\ emoji_type[calls[c][i].row] = NoEmoji
        /\ calls[c][i].emoji = "dice"
        /\ emoji_type[calls[c][j].row] # NoEmoji
        /\ calls[c][j].emoji # "dice"
        /\ calls[c][i].chat # calls[c][j].chat

\* C28: a step that makes a row completed is the commit of a run that made
\* a successful call for that row, and the roll_value committed is the
\* value that call returned; a row whose call failed is committed as error
\* with no roll_value.
C28_CommittedValueIsReturnedValue ==
    [][\A r \in Rows :
          status'[r] # status[r] =>
              \E c \in Cycles :
                  /\ pc[c] = "commit" /\ pc'[c] = "idle"
                  /\ \E i \in 1..Len(calls[c]) :
                        /\ calls[c][i].row = r
                        /\ \A j \in 1..Len(calls[c]) : calls[c][j].row = r => j = i
                        /\ (status'[r] = "completed") = calls[c][i].ok
                        /\ calls[c][i].ok => roll_value'[r] = calls[c][i].value
                        /\ ~calls[c][i].ok =>
                              status'[r] = "error" /\ roll_value'[r] = NULL
    ]_vars

\* Two rows are completed with different values, each the value its own
\* call returned.
C28_Witness ==
    \E r \in Rows : \E q \in Rows \ {r} :
        /\ status[r] = "completed" /\ status[q] = "completed"
        /\ roll_value[r] = 6
        /\ roll_value[q] = 64

\* C29: the outcomes a run has recorded stay invisible to every other
\* transaction until its commit: while a run holds a recorded outcome for
\* any row, that row and every other row of its batch are pending in the
\* committed table, with no roll_value and no processed_at, and pending
\* for every other run's transaction.
C29_BatchVisibleAtOnce ==
    \A c \in Cycles :
        (\E r \in Rows : writes[c][r] # NoWrite) =>
            \A q \in Range(batch[c]) :
                /\ status[q] = "pending"
                /\ roll_value[q] = NULL
                /\ processed_at[q] = NULL
                /\ \A d \in Cycles \ {c} : VisibleStatus(d, q) = "pending"

\* A run has recorded the outcome of the first row of a batch of two and
\* not yet of the second, while another run's transaction is open.
C29_Witness ==
    \E c \in Cycles : \E d \in Cycles \ {c} :
        /\ Len(batch[c]) = 2
        /\ writes[c][batch[c][1]] # NoWrite
        /\ writes[c][batch[c][2]] = NoWrite
        /\ txOpen[d]
        /\ pc[d] = "select"

\* C30: a run that released its client had ended the transaction it began
\* with a COMMIT or a ROLLBACK that resolved, or had begun none.
C30_NoReleaseWithOpenTransaction ==
    (lastExit.borrowed /\ lastExit.releases > 0) => lastExit.txEnded

\* C31: once the startup connectivity check is over, by success or by
\* failure, its client is back in the pool: no client is checked out while
\* startup waits for getMe or for the pool.end() of its catch block, so
\* that pool.end() can resolve.
C31_StartupClientReleased ==
    \A p \in Procs :
        startup[p] \in {"getMe", "poolEnd"} =>
            /\ checkedOut[p] = 0
            /\ startup[p] = "poolEnd" => PoolEndResolves(p)

\* C32: a process that has exited with code 0 was shut down by a
\* termination signal; one whose shutdown was begun by an uncaught
\* exception exits with a code other than 0.
C32_ExitZeroOnlyOnSignal ==
    \A p \in Procs :
        /\ exitCode[p] = 0 => shutdownReason[p] = "SIGTERM"
        /\ (shutdownReason[p] = "uncaughtException_exit" /\ exitCode[p] # NULL) =>
              exitCode[p] # 0

\* The texts that are an integer in 1..6.
RollTexts == {<<"1">>, <<"2">>, <<"3">>, <<"4">>, <<"5">>, <<"6">>}

\* The number a string of decimal digits denotes.
RECURSIVE DecimalValue(_)
DecimalValue(t) ==
    IF Len(t) = 0 THEN 0
    ELSE 10 * DecimalValue(SubSeq(t, 1, Len(t) - 1))
         + (CHOOSE d \in 0..9 : DigitChars[d + 1] = t[Len(t)])

\* Character a is the letter b of the phrase in either case.
SameLetter(a, b) ==
    \/ a = b
    \/ \E k \in 1..Len(Alphabet) : Alphabet[k] = b /\ Capitals[k] = a

\* The text contains "determine your roll" in any letter case.
ContainsPhraseAnyCase(t) ==
    \E k \in 0..(Len(t) - Len(Phrase)) :
        \A i \in 1..Len(Phrase) : SameLetter(t[k + i], Phrase[i])

\* C33: when a message is delivered, the bot sends a message whose text is
\* an integer in 1..6 if and only if the sender's id is the configured
\* main-bot id and the text contains "determine your roll" in any letter
\* case; it sends one such message, to the chat of the prompt and as a
\* reply to it; and when the sending of a roll reply fails the bot keeps
\* running.
C33_DirectReply ==
    [][/\ msgCount' # msgCount =>
             LET m == lastMsg'
                 rolls == {s \in pending' \ pending : s.text \in RollTexts}
             IN
             /\ (rolls # {}) <=>
                   /\ DecimalValue(MAIN_CASINO_BOT_ID_TO_LISTEN_TO) = m.from
                   /\ ContainsPhraseAnyCase(m.text)
             /\ Cardinality(rolls) <= 1
             /\ \A s \in rolls :
                   /\ s.chat = m.chat
                   /\ s.reply_to_message_id = m.message_id
       /\ \A s \in pending \ pending' : s.text \in RollTexts => replyUp'
    ]_vars

\* The sending of a roll reply has failed, the bot is running, and it has
\* answered a later prompt of the main bot, written in mixed case, with a
\* reply to that message in its chat.
C33_Witness ==
    /\ replyUp
    /\ lastSettled = [handler |-> "message", ok |-> FALSE]
    /\ msgCount = 2
    /\ lastMsg.text = Text2
    /\ \E s \in pending :
        /\ s.text \in RollTexts
        /\ s.chat = lastMsg.chat
        /\ s.reply_to_message_id = lastMsg.message_id

====
